---- MODULE Spec2Model ----
(***************************************************************************)
(* Task Approval API (src/main.py, src/schemas.py): a document store with  *)
(* two collections, "tasktemplate" and "taskinstance", and the HTTP        *)
(* handlers that read and update it.  Each action below is one handler     *)
(* call, run from its first line to its return or raise.  A second         *)
(* specification, SpecConc, runs handler calls concurrently, one store     *)
(* operation at a time.                                                    *)
(***************************************************************************)
EXTENDS Integers, Sequences, FiniteSets, TLC

VARIABLES
    db,            \* TRUE when the storage handle `db` is not None
    tasktemplate,  \* db["tasktemplate"]: documents in insertion order
    taskinstance,  \* db["taskinstance"]: documents in insertion order
    request,       \* the arguments of the latest handler call
    response,      \* what the latest handler call returned or raised
    calls,         \* number of handler calls served so far
    inflight       \* the requests being served concurrently, one per worker

vars == <<db, tasktemplate, taskinstance, request, response, calls, inflight>>

store == <<tasktemplate, taskinstance>>

----------------------------------------------------------------------------
(* Bounds of the model *)

MaxCalls == 4        \* handler calls in one run
MaxTasks == 2        \* documents in "taskinstance"
MaxTemplates == 2    \* documents in "tasktemplate"
MaxSteps == 2        \* steps of an explicitly created template

MaxWorkers == 2      \* requests served at the same time

----------------------------------------------------------------------------
(* Optional[...] values: None is the empty sequence, a value v is <<v>> *)

None == << >>

Some(v) == <<v>>

Min(a, b) == IF a <= b THEN a ELSE b

----------------------------------------------------------------------------
(* Document identifiers.  The store assigns ObjectIds (here 1, 2, ...);    *)
(* clients see and send them as strings of hex digits (here HexLen digits, *)
(* each a number 0..15; a digit above 15 stands for a non-hex character).  *)

HexLen == 2

\* str(oid): the hex string of an ObjectId
Str(oid) == [k \in 1..HexLen |-> (oid \div (16 ^ (HexLen - k))) % 16]

\* ObjectId(s) raises InvalidId unless s is HexLen hex digits
IsObjectIdString(s) ==
    /\ Len(s) = HexLen
    /\ \A k \in 1..Len(s) : s[k] \in 0..15

RECURSIVE HexValue(_)
HexValue(s) ==
    IF s = << >> THEN 0
    ELSE 16 * HexValue(SubSeq(s, 1, Len(s) - 1)) + s[Len(s)]

\* ObjectId(s) for a well-formed s
ObjectId(s) == HexValue(s)

\* the ObjectId the store gives the next inserted document
NextObjectId == Len(tasktemplate) + Len(taskinstance) + 1

\* collection.find_one({"_id": oid}): the position of the document, 0 if none
find_one(coll, oid) ==
    IF \E k \in 1..Len(coll) : coll[k]._id = oid
    THEN CHOOSE k \in 1..Len(coll) :
             /\ coll[k]._id = oid
             /\ \A j \in 1..(k - 1) : coll[j]._id # oid
    ELSE 0

\* the lookup by title finding nothing (a filter that matches no document)
find_one_by_title_NoMatch(coll, title) == 0

\* collection.find_one({"title": title}): position of the first match, 0 if none
find_one_by_title(coll, title) ==
    IF \E k \in 1..Len(coll) : coll[k].title = title
    THEN CHOOSE k \in 1..Len(coll) :
             /\ coll[k].title = title
             /\ \A j \in 1..(k - 1) : coll[j].title # title
    ELSE 0

\* to_str_id(doc): the document with "_id" popped and "id" = str(_id) added
to_str_id(doc) ==
    [f \in (DOMAIN doc \ {"_id"}) \cup {"id"} |->
        IF f = "id" THEN Str(doc._id) ELSE doc[f]]

\* an update whose filter matches no document (the id given as a string)
update_one_NoMatch(coll, oid, update) == coll

\* collection.update_one({"_id": oid}, {"$set": update})
update_one(coll, oid, update) ==
    [k \in 1..Len(coll) |->
        IF k = find_one(coll, oid)
        THEN [f \in DOMAIN coll[k] |->
                 IF f \in DOMAIN update THEN update[f] ELSE coll[k][f]]
        ELSE coll[k]]

----------------------------------------------------------------------------
(* Responses *)

\* raise HTTPException(status_code, detail)
HTTPException(status_code, detail) ==
    [code |-> status_code, detail |-> detail, body |-> << >>]

\* a handler returning a document (or a list of documents): HTTP 200
Returned(docs) == [code |-> 200, detail |-> "", body |-> docs]

\* an exception no handler catches (bson InvalidId): HTTP 500
Unhandled(name) == [code |-> 500, detail |-> name, body |-> << >>]

----------------------------------------------------------------------------
(* Templates *)

SeedTitle == "General Request Approval"

\* the three steps seed_template builds
SeedSteps ==
    << [name |-> "Details",
        description |-> Some("Provide request details"),
        fields |-> <<"subject", "amount", "due_date">>],
       [name |-> "Manager Review",
        description |-> Some("Manager approves or rejects"),
        fields |-> <<"manager_comment">>],
       [name |-> "Finance Review",
        description |-> Some("Finance verifies and approves"),
        fields |-> <<"cost_center">>] >>

\* the TaskTemplate seed_template builds, as model_dump() gives it
SeedTemplate ==
    [title |-> SeedTitle,
     description |-> Some("Three-step approval with basic fields"),
     steps |-> SeedSteps]

StepNames == <<"A", "B", "C", "D", "E", "F">>

\* a TaskTemplate the schema validates: steps is any list, the empty one too
TaskTemplate(title, n) ==
    [title |-> title,
     description |-> None,
     steps |-> [k \in 1..n |->
                   [name |-> StepNames[k], description |-> None,
                    fields |-> << >>]]]

\* a document stored under the identifier oid
StoredAs(data, oid) ==
    [f \in DOMAIN data \cup {"_id"} |-> IF f = "_id" THEN oid ELSE data[f]]

\* create_document(collection, data): the document as stored
Stored(data) == StoredAs(data, NextObjectId)


----------------------------------------------------------------------------
(* Task documents *)

\* StepInstance(name, description, fields, status="pending", form_data={})
StepInstance(s) ==
    [name |-> s.name,
     description |-> s.description,
     fields |-> s.fields,
     status |-> "pending",
     form_data |-> << >>,
     comment |-> None,
     approved_by |-> None]

\* TaskInstance(...) as create_task builds it from the template document
TaskInstance(tmpl, title, assignee) ==
    [template_id |-> Str(tmpl._id),
     title |-> IF title # None THEN title[1] ELSE tmpl.title,
     assignee |-> assignee,
     steps |-> [k \in 1..Len(tmpl.steps) |-> StepInstance(tmpl.steps[k])],
     current_step_index |-> 0,
     status |-> "submitted"]

\* the guard with the test for a negative index left out
InvalidIndex_NoNegativeTest(index, n) == index >= n

\* the handlers' guard "index < 0 or index >= len(task["steps"])"
InvalidIndex(index, n) == index < 0 \/ index >= n

\* position (1-based) of Python's list[index]; a negative index counts from the end
Position(index, n) == IF index < 0 THEN n + index + 1 ELSE index + 1

\* the action compared as sent, without lower()
Lower_AsSent(action) == action

\* payload.action.lower() on the action strings the model sends
Lower(action) ==
    CASE action = "APPROVE" -> "approve"
      [] action = "Approve" -> "approve"
      [] action = "REJECT" -> "reject"
      [] action = "Reject" -> "reject"
      [] OTHER -> action

\* the form data merged into the step's earlier data instead of replacing it
SubmittedSteps_Merge(steps, index, data) ==
    [k \in 1..Len(steps) |->
        IF k = Position(index, Len(steps))
        THEN [steps[k] EXCEPT !.form_data = data @@ steps[k].form_data,
                              !.status = "in_review"]
        ELSE steps[k]]

\* submit_step_form, lines 187-188: the steps list with form data saved
SubmittedSteps(steps, index, data) ==
    [k \in 1..Len(steps) |->
        IF k = Position(index, Len(steps))
        THEN [steps[k] EXCEPT !.form_data = data, !.status = "in_review"]
        ELSE steps[k]]

\* the whole document written back, not only its steps
SubmitUpdate_WholeTask(task, index, data) ==
    [steps |-> SubmittedSteps(task.steps, index, data),
     current_step_index |-> task.current_step_index,
     status |-> task.status]

\* submit_step_form, line 189: the fields "$set" writes
SubmitUpdate(task, index, data) ==
    [steps |-> SubmittedSteps(task.steps, index, data)]

\* decide_step, line 216
StepStatus(action) == IF action = "approve" THEN "approved" ELSE "rejected"

\* the approver recorded on approval only
DecidedSteps_ApproverOnApprove(steps, index, action, comment, actor) ==
    [k \in 1..Len(steps) |->
        IF k = Position(index, Len(steps))
        THEN [steps[k] EXCEPT !.comment = comment,
                              !.approved_by =
                                  IF action = "approve" THEN actor ELSE @,
                              !.status = StepStatus(action)]
        ELSE steps[k]]

\* decide_step, lines 213-216: the steps list with the decision recorded
DecidedSteps(steps, index, action, comment, actor) ==
    [k \in 1..Len(steps) |->
        IF k = Position(index, Len(steps))
        THEN [steps[k] EXCEPT !.comment = comment,
                              !.approved_by = actor,
                              !.status = StepStatus(action)]
        ELSE steps[k]]

\* the last-step test off by one: ">" for ">="
TaskStatus_OffByOne(step_status, next_index, n) ==
    IF step_status = "rejected" THEN "rejected"
    ELSE IF next_index > n THEN "approved"
    ELSE "in_progress"

\* decide_step, lines 219-225: "Progress task status"
TaskStatus(step_status, next_index, n) ==
    IF step_status = "rejected" THEN "rejected"
    ELSE IF next_index >= n THEN "approved"
    ELSE "in_progress"

\* decide_step, line 229
NewCurrentStepIndex(next_index, n) == Min(next_index, n - 1)

\* decide_step, lines 227-231: the fields "$set" writes
DecisionUpdate(task, index, action, comment, actor) ==
    LET steps == DecidedSteps(task.steps, index, action, comment, actor)
        n == Len(task.steps)
        next_index == index + 1
    IN  [steps |-> steps,
         current_step_index |-> NewCurrentStepIndex(next_index, n),
         status |-> TaskStatus(steps[Position(index, n)].status, next_index, n)]

----------------------------------------------------------------------------
(* Inputs the model sends *)

\* a string ObjectId() rejects (a non-hex character)
MalformedId == [k \in 1..HexLen |-> IF k = 1 THEN 16 ELSE 0]

\* identifier strings: the ids of the stored documents of a collection, one
\* well-formed id that no document has, and one malformed string
IdInputs(coll) ==
    {Str(coll[k]._id) : k \in 1..Len(coll)} \cup {Str(NextObjectId), MalformedId}

IndexInputs == -1..3

DataInputs == {("subject" :> "X" @@ "amount" :> 100), ("subject" :> "Y")}

\* bodies of the decision request: action, comment, actor
DecisionInputs ==
    { [action |-> "approve", comment |-> None, actor |-> None],
      [action |-> "APPROVE", comment |-> Some("ok"), actor |-> Some("alice")],
      [action |-> "reject", comment |-> Some("no"), actor |-> Some("bob")],
      [action |-> "cancel", comment |-> Some("ok"), actor |-> Some("alice")] }

TitleInputs == {None, Some("Trip")}

AssigneeInputs == {None}

TemplateTitleInputs == {"Custom"}

StatusFilterInputs == {None, Some("rejected")}

----------------------------------------------------------------------------
(* Requests served concurrently: each worker runs one handler call *)

Workers == 1..MaxWorkers

\* a worker with no request: pc is the next store operation of its handler,
\* local holds what the handler read, resp what it answered
Idle == [pc |-> "idle", req |-> [op |-> "none"], local |-> << >>, resp |-> << >>]

----------------------------------------------------------------------------
(* The state after import: the handle is there or not, the store is empty *)

Init ==
    /\ db \in BOOLEAN
    /\ tasktemplate = << >>
    /\ taskinstance = << >>
    /\ request = [op |-> "none"]
    /\ response = Returned(<< >>)
    /\ calls = 0
    /\ inflight = [p \in Workers |-> Idle]

\* every handler call is recorded and counted
Call(req) ==
    /\ calls < MaxCalls
    /\ calls' = calls + 1
    /\ request' = req
    /\ db' = db
    /\ inflight' = inflight

Fail(resp) == response' = resp /\ UNCHANGED store

\* the test for a missing storage handle left out
db_is_None_Skipped == FALSE

\* the handlers' first test, "db is None"
db_is_None == ~db

NoDatabase == HTTPException(500, "Database not configured")

----------------------------------------------------------------------------
(* Template Store *)

\* POST /api/templates/seed
seed_template ==
    /\ Call([op |-> "seed_template"])
    /\ IF db_is_None THEN Fail(NoDatabase)
       ELSE LET existing == find_one_by_title(tasktemplate, SeedTitle) IN
            IF existing # 0
            THEN /\ response' = Returned(<<to_str_id(tasktemplate[existing])>>)
                 /\ UNCHANGED store
            ELSE LET doc == Stored(SeedTemplate)
                 IN  /\ Len(tasktemplate) < MaxTemplates
                     /\ tasktemplate' = Append(tasktemplate, doc)
                     /\ response' = Returned(<<to_str_id(doc)>>)
                     /\ UNCHANGED taskinstance

\* explicit creation of a template document that the TaskTemplate schema admits
create_template(title, n) ==
    /\ db
    /\ Len(tasktemplate) < MaxTemplates
    /\ Call([op |-> "create_template", title |-> title, steps |-> n])
    /\ LET doc == Stored(TaskTemplate(title, n))
       IN  /\ tasktemplate' = Append(tasktemplate, doc)
           /\ response' = Returned(<<to_str_id(doc)>>)
           /\ UNCHANGED taskinstance

----------------------------------------------------------------------------
(* Task Workflow Engine *)

\* POST /api/tasks
create_task(template_id, title, assignee) ==
    /\ Call([op |-> "create_task", template_id |-> template_id,
             title |-> title, assignee |-> assignee])
    /\ IF db_is_None THEN Fail(NoDatabase)
       ELSE IF ~IsObjectIdString(template_id) THEN Fail(Unhandled("InvalidId"))
       ELSE LET tmpl == find_one(tasktemplate, ObjectId(template_id)) IN
            IF tmpl = 0 THEN Fail(HTTPException(404, "Template not found"))
            ELSE LET doc == Stored(TaskInstance(tasktemplate[tmpl], title, assignee))
                 IN  /\ Len(taskinstance) < MaxTasks
                     /\ taskinstance' = Append(taskinstance, doc)
                     /\ response' = Returned(<<to_str_id(doc)>>)
                     /\ UNCHANGED tasktemplate

RECURSIVE Newest(_, _)
\* find(filter).sort("created_at", -1): matching documents, newest first
Newest(coll, status) ==
    IF coll = << >> THEN << >>
    ELSE LET last == coll[Len(coll)]
             rest == Newest(SubSeq(coll, 1, Len(coll) - 1), status)
         IN  IF status = None \/ last.status = status[1]
             THEN <<to_str_id(last)>> \o rest
             ELSE rest

\* GET /api/tasks
list_tasks(status) ==
    /\ Call([op |-> "list_tasks", status |-> status])
    /\ IF db_is_None THEN Fail(NoDatabase)
       ELSE Fail(Returned(Newest(taskinstance, status)))

\* GET /api/tasks/{task_id}
get_task(task_id) ==
    /\ Call([op |-> "get_task", task_id |-> task_id])
    /\ IF db_is_None THEN Fail(NoDatabase)
       ELSE IF ~IsObjectIdString(task_id) THEN Fail(Unhandled("InvalidId"))
       ELSE LET doc == find_one(taskinstance, ObjectId(task_id)) IN
            IF doc = 0 THEN Fail(HTTPException(404, "Task not found"))
            ELSE Fail(Returned(<<to_str_id(taskinstance[doc])>>))

\* POST /api/tasks/{task_id}/steps/{index}/submit
submit_step_form(task_id, index, data) ==
    /\ Call([op |-> "submit_step_form", task_id |-> task_id, index |-> index,
             data |-> data])
    /\ IF db_is_None THEN Fail(NoDatabase)
       ELSE IF ~IsObjectIdString(task_id) THEN Fail(Unhandled("InvalidId"))
       ELSE LET task == find_one(taskinstance, ObjectId(task_id)) IN
            IF task = 0 THEN Fail(HTTPException(404, "Task not found"))
            ELSE LET steps == taskinstance[task].steps IN
                 IF InvalidIndex(index, Len(steps))
                 THEN Fail(HTTPException(400, "Invalid step index"))
                 ELSE IF Position(index, Len(steps)) \notin 1..Len(steps)
                 THEN Fail(Unhandled("IndexError"))
                 ELSE /\ taskinstance' =
                            update_one(taskinstance, ObjectId(task_id),
                                SubmitUpdate(taskinstance[task], index, data))
                      /\ response' = [code |-> 200, detail |-> "ok", body |-> << >>]
                      /\ UNCHANGED tasktemplate

\* POST /api/tasks/{task_id}/steps/{index}/decision
decide_step(task_id, index, action, comment, actor) ==
    /\ Call([op |-> "decide_step", task_id |-> task_id, index |-> index,
             action |-> action, comment |-> comment, actor |-> actor])
    /\ IF db_is_None THEN Fail(NoDatabase)
       ELSE IF ~IsObjectIdString(task_id) THEN Fail(Unhandled("InvalidId"))
       ELSE LET task == find_one(taskinstance, ObjectId(task_id)) IN
            IF task = 0 THEN Fail(HTTPException(404, "Task not found"))
            ELSE LET steps == taskinstance[task].steps IN
                 IF InvalidIndex(index, Len(steps))
                 THEN Fail(HTTPException(400, "Invalid step index"))
                 ELSE IF Lower(action) \notin {"approve", "reject"}
                 THEN Fail(HTTPException(400, "Invalid action"))
                 ELSE IF Position(index, Len(steps)) \notin 1..Len(steps)
                 THEN Fail(Unhandled("IndexError"))
                 ELSE LET updated ==
                              update_one(taskinstance, ObjectId(task_id),
                                  DecisionUpdate(taskinstance[task], index,
                                      Lower(action), comment, actor))
                      IN  /\ taskinstance' = updated
                          /\ response' = Returned(<<to_str_id(updated[task])>>)
                          /\ UNCHANGED tasktemplate

----------------------------------------------------------------------------

Next ==
    \/ seed_template
    \/ \E title \in TemplateTitleInputs, n \in 0..MaxSteps :
           create_template(title, n)
    \/ \E template_id \in IdInputs(tasktemplate), title \in TitleInputs,
          assignee \in AssigneeInputs :
           create_task(template_id, title, assignee)
    \/ \E status \in StatusFilterInputs : list_tasks(status)
    \/ \E task_id \in IdInputs(taskinstance) : get_task(task_id)
    \/ \E task_id \in IdInputs(taskinstance), index \in IndexInputs,
          data \in DataInputs :
           submit_step_form(task_id, index, data)
    \/ \E task_id \in IdInputs(taskinstance), index \in IndexInputs,
          payload \in DecisionInputs :
           decide_step(task_id, index, payload.action, payload.comment,
                       payload.actor)

Spec == Init /\ [][Next]_vars

----------------------------------------------------------------------------
(* Concurrent requests.  The server runs each handler call on a worker     *)
(* thread; the store serializes single operations (find_one, update_one,   *)
(* insert) and nothing more, so a step below is one store operation with   *)
(* the handler's local code around it.                                     *)

ConcIndexInputs == {0, 1, 3}

ConcDataInputs == {("subject" :> "Y")}

ConcDecisionInputs ==
    { [action |-> "approve", comment |-> None, actor |-> None],
      [action |-> "reject", comment |-> Some("no"), actor |-> Some("bob")],
      [action |-> "cancel", comment |-> None, actor |-> None] }

\* the store when the requests arrive: empty, or after seed and createTask
InitConc ==
    /\ db = TRUE
    /\ \/ /\ tasktemplate = << >>
          /\ taskinstance = << >>
       \/ /\ tasktemplate = <<StoredAs(SeedTemplate, 1)>>
          /\ taskinstance =
                 <<StoredAs(TaskInstance(StoredAs(SeedTemplate, 1), None, None),
                            2)>>
    /\ request = [op |-> "none"]
    /\ response = Returned(<< >>)
    /\ calls = 0
    /\ inflight = [p \in Workers |-> Idle]

Sequential == <<db, request, response, calls>>

\* worker p goes on to its next store operation
Goto(p, pc, req, local) ==
    inflight' = [inflight EXCEPT ![p] =
                    [pc |-> pc, req |-> req, local |-> local, resp |-> << >>]]

\* worker p answers
Done(p, req, resp) ==
    inflight' = [inflight EXCEPT ![p] =
                    [pc |-> "done", req |-> req, local |-> inflight[p].local,
                     resp |-> <<resp>>]]

\* seed_template, lines 68-72: the lookup by title
seed_find_title(p) ==
    /\ inflight[p].pc = "idle"
    /\ LET req == [op |-> "seed_template"]
           existing == find_one_by_title(tasktemplate, SeedTitle)
       IN  IF db_is_None THEN Done(p, req, NoDatabase)
           ELSE IF existing # 0
           THEN Done(p, req, Returned(<<to_str_id(tasktemplate[existing])>>))
           ELSE Goto(p, "seed_insert", req, << >>)
    /\ UNCHANGED <<store, Sequential>>

\* seed_template, lines 74-105: the insert
seed_insert(p) ==
    /\ inflight[p].pc = "seed_insert"
    /\ Len(tasktemplate) < MaxTemplates
    /\ LET doc == Stored(SeedTemplate)
       IN  /\ tasktemplate' = Append(tasktemplate, doc)
           /\ Goto(p, "seed_find_id", inflight[p].req, <<doc._id>>)
    /\ UNCHANGED <<taskinstance, Sequential>>

\* seed_template, lines 106-107: the inserted document read back
seed_find_id(p) ==
    /\ inflight[p].pc = "seed_find_id"
    /\ LET doc == tasktemplate[find_one(tasktemplate, inflight[p].local[1])]
       IN  Done(p, inflight[p].req, Returned(<<to_str_id(doc)>>))
    /\ UNCHANGED <<store, Sequential>>

\* submit_step_form, lines 178-184: the task read and the index checked
submit_find(p, task_id, index, data) ==
    /\ inflight[p].pc = "idle"
    /\ LET req == [op |-> "submit_step_form", task_id |-> task_id,
                   index |-> index, data |-> data]
       IN  IF db_is_None THEN Done(p, req, NoDatabase)
           ELSE IF ~IsObjectIdString(task_id)
           THEN Done(p, req, Unhandled("InvalidId"))
           ELSE LET task == find_one(taskinstance, ObjectId(task_id)) IN
                IF task = 0
                THEN Done(p, req, HTTPException(404, "Task not found"))
                ELSE IF InvalidIndex(index, Len(taskinstance[task].steps))
                THEN Done(p, req, HTTPException(400, "Invalid step index"))
                ELSE Goto(p, "submit_update", req, <<taskinstance[task]>>)
    /\ UNCHANGED <<store, Sequential>>

\* submit_step_form, lines 187-190: the steps read earlier, changed, written
submit_update(p) ==
    /\ inflight[p].pc = "submit_update"
    /\ LET req == inflight[p].req
           task == inflight[p].local[1]
       IN  /\ taskinstance' =
                  update_one(taskinstance, ObjectId(req.task_id),
                      SubmitUpdate(task, req.index, req.data))
           /\ Done(p, req, [code |-> 200, detail |-> "ok", body |-> << >>])
    /\ UNCHANGED <<tasktemplate, Sequential>>

\* decide_step, lines 201-211: the task read, index and action checked
decide_find(p, task_id, index, action, comment, actor) ==
    /\ inflight[p].pc = "idle"
    /\ LET req == [op |-> "decide_step", task_id |-> task_id,
                   index |-> index, action |-> action, comment |-> comment,
                   actor |-> actor]
       IN  IF db_is_None THEN Done(p, req, NoDatabase)
           ELSE IF ~IsObjectIdString(task_id)
           THEN Done(p, req, Unhandled("InvalidId"))
           ELSE LET task == find_one(taskinstance, ObjectId(task_id)) IN
                IF task = 0
                THEN Done(p, req, HTTPException(404, "Task not found"))
                ELSE IF InvalidIndex(index, Len(taskinstance[task].steps))
                THEN Done(p, req, HTTPException(400, "Invalid step index"))
                ELSE IF Lower(action) \notin {"approve", "reject"}
                THEN Done(p, req, HTTPException(400, "Invalid action"))
                ELSE Goto(p, "decide_update", req, <<taskinstance[task]>>)
    /\ UNCHANGED <<store, Sequential>>

\* decide_step, lines 213-233: the task read earlier, decided, written
decide_update(p) ==
    /\ inflight[p].pc = "decide_update"
    /\ LET req == inflight[p].req
           task == inflight[p].local[1]
       IN  /\ taskinstance' =
                  update_one(taskinstance, ObjectId(req.task_id),
                      DecisionUpdate(task, req.index, Lower(req.action),
                                     req.comment, req.actor))
           /\ Goto(p, "decide_return", req, inflight[p].local)
    /\ UNCHANGED <<tasktemplate, Sequential>>

\* decide_step, lines 234-235: the task read again and returned
decide_return(p) ==
    /\ inflight[p].pc = "decide_return"
    /\ LET req == inflight[p].req
           doc == taskinstance[find_one(taskinstance, ObjectId(req.task_id))]
       IN  Done(p, req, Returned(<<to_str_id(doc)>>))
    /\ UNCHANGED <<store, Sequential>>

NextConc ==
    \E p \in Workers :
        \/ seed_find_title(p)
        \/ seed_insert(p)
        \/ seed_find_id(p)
        \/ \E task_id \in IdInputs(taskinstance), index \in ConcIndexInputs,
              data \in ConcDataInputs :
               submit_find(p, task_id, index, data)
        \/ submit_update(p)
        \/ \E task_id \in IdInputs(taskinstance), index \in ConcIndexInputs,
              payload \in ConcDecisionInputs :
               decide_find(p, task_id, index, payload.action, payload.comment,
                           payload.actor)
        \/ decide_update(p)
        \/ decide_return(p)

SpecConc == InitConc /\ [][NextConc]_vars

----------------------------------------------------------------------------
(* Properties *)

\* the stored task an identifier string resolves to (position, 0 if none)
Resolve(coll, id) ==
    IF IsObjectIdString(id) THEN find_one(coll, ObjectId(id)) ELSE 0

Succeeded(op) == request.op = op /\ response.code = 200

Terminal == {"approved", "rejected"}

NonEmptyTasks == {k \in 1..Len(taskinstance) : Len(taskinstance[k].steps) > 0}

StepStatuses(task) == {task.steps[j].status : j \in 1..Len(task.steps)}

\* C1: after a successful decideStep the task status follows from the decided
\* step alone: reject gives "rejected"; approve on the last step gives
\* "approved"; approve on an earlier step gives "in_progress".
C1_StatusFromDecidedStep ==
    Succeeded("decide_step") =>
        LET task == taskinstance[Resolve(taskinstance, request.task_id)]
            last == Len(task.steps) - 1
        IN  task.status =
                IF request.action \in {"reject", "Reject", "REJECT"}
                THEN "rejected"
                ELSE IF request.index = last THEN "approved"
                ELSE "in_progress"

\* C1 witness: approving the last step of a task that holds a rejected step
\* has made the task "approved"
C1_Witness ==
    /\ Succeeded("decide_step")
    /\ request.action \in {"approve", "APPROVE"}
    /\ LET task == taskinstance[Resolve(taskinstance, request.task_id)]
       IN  /\ request.index = Len(task.steps) - 1
           /\ task.status = "approved"
           /\ "rejected" \in StepStatuses(task)

\* C2: every stored task has 0 <= current_step_index <= len(steps) - 1.
C2_IndexInRange ==
    \A k \in 1..Len(taskinstance) :
        /\ 0 <= taskinstance[k].current_step_index
        /\ taskinstance[k].current_step_index <= Len(taskinstance[k].steps) - 1

\* C3: a task's status is "rejected" if and only if one of its steps has
\* status "rejected".
C3_RejectedIffStepRejected ==
    \A k \in 1..Len(taskinstance) :
        taskinstance[k].status = "rejected"
            <=> "rejected" \in StepStatuses(taskinstance[k])

\* C4: a task (with at least one step) has status "approved" if and only if
\* all of its steps have status "approved".
C4_ApprovedIffAllApproved ==
    \A k \in NonEmptyTasks :
        taskinstance[k].status = "approved"
            <=> StepStatuses(taskinstance[k]) = {"approved"}

\* C5: once a task's status is "rejected" or "approved", no call changes it.
C5_TaskTerminal ==
    [][\A k \in 1..Len(taskinstance) :
          taskinstance[k].status \in Terminal
              => taskinstance'[k].status = taskinstance[k].status]_vars

\* C6: once a step's status is "approved" or "rejected", no call changes it.
C6_StepTerminal ==
    [][\A k \in 1..Len(taskinstance) :
          \A j \in 1..Len(taskinstance[k].steps) :
              taskinstance[k].steps[j].status \in Terminal
                  => taskinstance'[k].steps[j].status
                         = taskinstance[k].steps[j].status]_vars

\* C7: a successful submitStepForm sets the addressed step's form_data to
\* exactly the given mapping and its status to "in_review", and changes
\* nothing else of the task: not the other steps, not the step's other
\* attributes, not current_step_index, not the task status.
C7_SubmitFrame ==
    [][(request'.op = "submit_step_form" /\ response'.code = 200) =>
          LET k == Resolve(taskinstance, request'.task_id)
              old == taskinstance[k]
              new == taskinstance'[k]
              i == request'.index + 1
          IN  /\ k # 0
              /\ i \in 1..Len(old.steps)
              /\ new.steps[i].form_data = request'.data
              /\ new.steps[i].status = "in_review"
              /\ new.steps[i] = [old.steps[i] EXCEPT
                                    !.form_data = request'.data,
                                    !.status = "in_review"]
              /\ Len(new.steps) = Len(old.steps)
              /\ \A j \in 1..Len(old.steps) :
                     j # i => new.steps[j] = old.steps[j]
              /\ new = [old EXCEPT !.steps = new.steps]]_vars

\* C7 witness: a submit on a step that was decided before: the step is back
\* "in_review" and holds the submitted mapping, its approver is kept
C7_Witness ==
    /\ Succeeded("submit_step_form")
    /\ request.data = ("subject" :> "Y")
    /\ LET task == taskinstance[Resolve(taskinstance, request.task_id)]
           step == task.steps[request.index + 1]
       IN  /\ step.form_data = ("subject" :> "Y")
           /\ step.status = "in_review"
           /\ step.approved_by # None
           /\ task.status \in Terminal \cup {"in_progress"}

\* C8: a successful decideStep never lowers current_step_index.
C8_IndexNeverBackward ==
    [][(request'.op = "decide_step" /\ response'.code = 200) =>
          LET k == Resolve(taskinstance, request'.task_id)
          IN  taskinstance'[k].current_step_index
                  >= taskinstance[k].current_step_index]_vars

\* C9: a successful decideStep approving a step that is not the last raises
\* current_step_index by exactly 1 (clamped to len(steps) - 1).
C9_AdvanceByOne ==
    [][(/\ request'.op = "decide_step"
        /\ response'.code = 200
        /\ request'.action \in {"approve", "APPROVE"}
        /\ LET k == Resolve(taskinstance, request'.task_id)
           IN  request'.index < Len(taskinstance[k].steps) - 1) =>
          LET k == Resolve(taskinstance, request'.task_id)
              old == taskinstance[k]
          IN  taskinstance'[k].current_step_index
                  = Min(old.current_step_index + 1, Len(old.steps) - 1)]_vars

\* C10: submitStepForm and decideStep on a stored task with stepIndex < 0 or
\* stepIndex >= len(steps) fail with HTTP 400 and leave the store unchanged.
C10_BadIndexRejected ==
    [][(/\ request'.op \in {"submit_step_form", "decide_step"}
        /\ Resolve(taskinstance, request'.task_id) # 0
        /\ LET n == Len(taskinstance[Resolve(taskinstance,
                                             request'.task_id)].steps)
           IN  request'.index < 0 \/ request'.index >= n) =>
          /\ response'.code = 400
          /\ store' = store]_vars

\* C10 witness: a decision with a negative index and an unknown action on a
\* rejected task was answered 400 "Invalid step index"
C10_Witness ==
    /\ request.op = "decide_step"
    /\ request.index = -1
    /\ request.action = "cancel"
    /\ response.code = 400
    /\ response.detail = "Invalid step index"
    /\ Resolve(taskinstance, request.task_id) # 0
    /\ taskinstance[Resolve(taskinstance, request.task_id)].status = "rejected"

ApproveVariants == {"approve", "Approve", "APPROVE"}

RejectVariants == {"reject", "Reject", "REJECT"}

\* C11: decideStep on a stored task with a valid stepIndex and an action that
\* is no case variant of "approve"/"reject" fails with HTTP 400 and leaves the
\* store unchanged; a case variant is accepted and the store changes exactly
\* as for the lowercase action.
C11_ActionChecked ==
    [][(/\ request'.op = "decide_step"
        /\ Resolve(taskinstance, request'.task_id) # 0
        /\ LET n == Len(taskinstance[Resolve(taskinstance,
                                             request'.task_id)].steps)
           IN  request'.index >= 0 /\ request'.index < n) =>
          LET k == Resolve(taskinstance, request'.task_id)
              r == request'
              as(action) ==
                  update_one(taskinstance, taskinstance[k]._id,
                      DecisionUpdate(taskinstance[k], r.index, action,
                                     r.comment, r.actor))
          IN  /\ r.action \in ApproveVariants =>
                  response'.code = 200 /\ taskinstance' = as("approve")
              /\ r.action \in RejectVariants =>
                  response'.code = 200 /\ taskinstance' = as("reject")
              /\ r.action \notin ApproveVariants \cup RejectVariants =>
                  /\ response'.code = 400
                  /\ response'.detail = "Invalid action"
                  /\ store' = store]_vars

\* C11 witness: "APPROVE" was accepted and approved the step
C11_Witness ==
    /\ Succeeded("decide_step")
    /\ request.action = "APPROVE"
    /\ LET task == taskinstance[Resolve(taskinstance, request.task_id)]
       IN  /\ task.steps[request.index + 1].status = "approved"
           /\ task.steps[request.index + 1].approved_by = Some("alice")

\* C12: createTask with a template id that resolves to no stored template
\* fails with NotFound (HTTP 404) and creates no task; with a known id it
\* stores and returns a task with the template's steps in order, every step
\* pending with empty form_data, current_step_index 0 and status "submitted".
C12_CreateTask ==
    [][(request'.op = "create_task" /\ db) =>
          LET t == Resolve(tasktemplate, request'.template_id)
          IN  IF t = 0
              THEN response'.code = 404 /\ store' = store
              ELSE LET tmpl == tasktemplate[t]
                       task == taskinstance'[Len(taskinstance')]
                   IN  /\ response'.code = 200
                       /\ Len(taskinstance') = Len(taskinstance) + 1
                       /\ response'.body = <<to_str_id(task)>>
                       /\ Len(task.steps) = Len(tmpl.steps)
                       /\ \A j \in 1..Len(tmpl.steps) :
                              /\ task.steps[j].name = tmpl.steps[j].name
                              /\ task.steps[j].fields = tmpl.steps[j].fields
                              /\ task.steps[j].status = "pending"
                              /\ task.steps[j].form_data = << >>
                       /\ task.current_step_index = 0
                       /\ task.status = "submitted"]_vars

SeedTemplates(coll) == {k \in 1..Len(coll) : coll[k].title = SeedTitle}

\* C13: sequential seed calls all return the same template: each successful
\* call returns the one stored template titled "General Request Approval",
\* after it the collection holds exactly one such template, and no call ever
\* changes or removes a stored template.
C13_SeedIdempotent ==
    [][/\ \A k \in 1..Len(tasktemplate) :
              Len(tasktemplate') >= k /\ tasktemplate'[k] = tasktemplate[k]
       /\ (request'.op = "seed_template" /\ response'.code = 200) =>
              /\ Cardinality(SeedTemplates(tasktemplate')) = 1
              /\ \A k \in SeedTemplates(tasktemplate') :
                     response'.body = <<to_str_id(tasktemplate'[k])>>
              /\ SeedTemplates(tasktemplate) # {} =>
                     tasktemplate' = tasktemplate]_vars

\* C13 witness: a seed call answered with the template an earlier call
\* stored, after a task was created from it
C13_Witness ==
    /\ Succeeded("seed_template")
    /\ calls >= 3
    /\ Len(taskinstance) >= 1
    /\ Cardinality(SeedTemplates(tasktemplate)) = 1
    /\ response.body[1].id = taskinstance[1].template_id

\* C15: getTask, submitStepForm and decideStep with a task identifier that
\* resolves to no stored task fail with NotFound (HTTP 404), whatever the
\* index and the action, and change nothing in the store.
C15_UnknownTaskNotFound ==
    [][(/\ request'.op \in {"get_task", "submit_step_form", "decide_step"}
        /\ db
        /\ Resolve(taskinstance, request'.task_id) = 0) =>
          /\ response'.code = 404
          /\ response'.detail = "Task not found"
          /\ store' = store]_vars

StorageOps ==
    {"seed_template", "create_task", "list_tasks", "get_task",
     "submit_step_form", "decide_step"}

\* C16: with the storage handle missing (db is None) every storage-backed
\* operation fails with HTTP 500 "Database not configured", before any
\* other validation and without a state change.
C16_NoDatabase ==
    [][(~db /\ request'.op \in StorageOps) =>
          /\ response'.code = 500
          /\ response'.detail = "Database not configured"
          /\ store' = store
          /\ store = <<<< >>, << >>>>]_vars

\* C16 witness: without a handle a decision with a malformed id, a negative
\* index and an unknown action was answered "Database not configured"
C16_Witness ==
    /\ ~db
    /\ request.op = "decide_step"
    /\ request.task_id = MalformedId
    /\ request.index = -1
    /\ request.action = "cancel"
    /\ response.code = 500
    /\ response.detail = "Database not configured"
    /\ calls >= 2

\* C17: a successful decideStep sets the addressed step's comment and
\* approved_by to the values sent (None when omitted, on reject too) and its
\* status to approved/rejected; the step's other attributes (form_data among
\* them), the other steps, the other tasks and the templates stay as they were.
C17_DecideFrame ==
    [][(request'.op = "decide_step" /\ response'.code = 200) =>
          LET k == Resolve(taskinstance, request'.task_id)
              old == taskinstance[k]
              new == taskinstance'[k]
              i == request'.index + 1
          IN  /\ k # 0
              /\ i \in 1..Len(old.steps)
              /\ new.steps[i] =
                     [old.steps[i] EXCEPT
                         !.comment = request'.comment,
                         !.approved_by = request'.actor,
                         !.status = IF request'.action \in RejectVariants
                                    THEN "rejected" ELSE "approved"]
              /\ new.steps[i].form_data = old.steps[i].form_data
              /\ Len(new.steps) = Len(old.steps)
              /\ \A j \in 1..Len(old.steps) :
                     j # i => new.steps[j] = old.steps[j]
              /\ Len(taskinstance') = Len(taskinstance)
              /\ \A m \in 1..Len(taskinstance) :
                     m # k => taskinstance'[m] = taskinstance[m]
              /\ tasktemplate' = tasktemplate]_vars

\* C17 witness: a rejection recorded its actor and comment on a step that
\* holds submitted form data
C17_Witness ==
    /\ Succeeded("decide_step")
    /\ request.action = "reject"
    /\ LET task == taskinstance[Resolve(taskinstance, request.task_id)]
           step == task.steps[request.index + 1]
       IN  /\ step.status = "rejected"
           /\ step.approved_by = Some("bob")
           /\ step.comment = Some("no")
           /\ step.form_data = ("subject" :> "Y")

Answered(p, op) ==
    /\ inflight[p].pc = "done"
    /\ inflight[p].req.op = op
    /\ inflight[p].resp[1].code = 200

\* C14: when requests on one task interleave, each write replaces the stored
\* steps list by the writer's own copy (the steps it read, with its one
\* change), whatever the store holds by then, and every request that got as
\* far as its write is answered 200: no conflict is detected.
C14_StaleCopyOverwrites ==
    [][\A p \in Workers :
          LET w == inflight[p]
              k == Resolve(taskinstance, w.req.task_id)
              i == w.req.index + 1
          IN  /\ (w.pc = "submit_update" /\ inflight'[p].pc # w.pc) =>
                  /\ taskinstance'[k].steps =
                         [w.local[1].steps EXCEPT
                             ![i].form_data = w.req.data,
                             ![i].status = "in_review"]
                  /\ inflight'[p].resp[1].code = 200
              /\ (w.pc = "decide_update" /\ inflight'[p].pc # w.pc) =>
                  taskinstance'[k].steps =
                      [w.local[1].steps EXCEPT
                          ![i].comment = w.req.comment,
                          ![i].approved_by = w.req.actor,
                          ![i].status = IF w.req.action \in RejectVariants
                                        THEN "rejected" ELSE "approved"]
              /\ (w.pc = "decide_return" /\ inflight'[p].pc # w.pc) =>
                  inflight'[p].resp[1].code = 200]_vars

\* C14 witness (the lost update): a submit of step 0 and a request on step 1
\* of the same task were both answered 200, and the stored step 0 is still
\* pending with no form data
C14_LostUpdate ==
    \E p, q \in Workers :
        /\ p # q
        /\ Answered(p, "submit_step_form")
        /\ Answered(q, "submit_step_form") \/ Answered(q, "decide_step")
        /\ inflight[p].req.task_id = inflight[q].req.task_id
        /\ inflight[p].req.index = 0
        /\ inflight[q].req.index = 1
        /\ LET task == taskinstance[Resolve(taskinstance,
                                            inflight[p].req.task_id)]
           IN  /\ task.steps[1].status = "pending"
               /\ task.steps[1].form_data = << >>
               /\ task.steps[2].status # "pending"

\* C18 as stated: under any interleaving a stored step status that has left
\* "pending" is never "pending" again, and a stored task status that has
\* left "submitted" is never "submitted" or "draft" again.
C18_NeverBack ==
    [][\A k \in 1..Len(taskinstance) :
          /\ \A j \in 1..Len(taskinstance[k].steps) :
                 taskinstance[k].steps[j].status # "pending"
                     => taskinstance'[k].steps[j].status # "pending"
          /\ taskinstance[k].status # "submitted"
                 => taskinstance'[k].status \notin {"submitted", "draft"}]_vars

\* C18 amended: a stored task status that has left "submitted" is never
\* "submitted" or "draft" again; a stored step status that has left "pending"
\* becomes "pending" again only by the write of a request that read the task
\* while that step was pending and that addresses another step.
C18_BackOnlyByStaleWrite ==
    [][\A k \in 1..Len(taskinstance) :
          /\ taskinstance[k].status # "submitted"
                 => taskinstance'[k].status \notin {"submitted", "draft"}
          /\ \A j \in 1..Len(taskinstance[k].steps) :
                 (/\ taskinstance[k].steps[j].status # "pending"
                  /\ taskinstance'[k].steps[j].status = "pending") =>
                     \E p \in Workers :
                         /\ inflight[p].pc \in {"submit_update", "decide_update"}
                         /\ inflight'[p].pc # inflight[p].pc
                         /\ Resolve(taskinstance, inflight[p].req.task_id) = k
                         /\ inflight[p].req.index + 1 # j
                         /\ inflight[p].local[1].steps[j].status = "pending"]_vars

\* C18 witness: a decision was answered 200 and the task status has left
\* "submitted", but the decided step is stored as pending again
C18_Witness ==
    \E p \in Workers :
        /\ Answered(p, "decide_step")
        /\ LET task == taskinstance[Resolve(taskinstance,
                                            inflight[p].req.task_id)]
           IN  /\ task.status \in {"in_progress", "approved", "rejected"}
               /\ task.steps[inflight[p].req.index + 1].status = "pending"

\* C19: under any interleaving of seed calls the collection holds at most one
\* template titled "General Request Approval", and all seed calls return the
\* same identifier.
C19_OneSeedTemplate ==
    /\ Cardinality(SeedTemplates(tasktemplate)) <= 1
    /\ \A p, q \in Workers :
           (Answered(p, "seed_template") /\ Answered(q, "seed_template")) =>
               inflight[p].resp[1].body[1].id = inflight[q].resp[1].body[1].id

====
